---- MODULE Spec2Model ----
(***************************************************************************)
(* The non-player-character decision layer of the rogue-like:              *)
(* source/components/ai.py (BaseAI.get_path_to, BaseAI.get_fov,            *)
(* BaseAI.get_actors_in_fov and the perform methods of HostileEnemy, Orc,  *)
(* Troll and Animal) with the archetypes of source/entity_factories.py.    *)
(*                                                                         *)
(* One creature, self.entity, runs one of the four ai classes on a small   *)
(* tile grid; the other actors of the game map move between its turns.     *)
(***************************************************************************)
EXTENDS Integers, Sequences, FiniteSets, TLC

\* ------------------------------------------------------------------ bounds
\* Width and height of the tile grid (gamemap.tiles is indexed [x, y]).
GridW == 4
GridH == 2

\* ------------------------------------------------------- program constants
Cardinal       == 2      \* tcod.path.SimpleGraph(cardinal=2, ...)
Diagonal       == 3      \* tcod.path.SimpleGraph(..., diagonal=3)
BlockedPenalty == 10     \* cost[entity.x, entity.y] += 10
FovRadius      == 8      \* compute_fov(..., radius=8)
HomeUnset      == -999   \* self.home = (-999,-999)
PlayerFaction  == 0      \* entity_factories.player
OrcFaction     == 1      \* entity_factories.orc, entity_factories.troll
DeerFaction    == 2      \* entity_factories.deer

VARIABLES
  walkable,    \* gamemap.tiles["walkable"], as the set of cells that are True
  corrupted,   \* the cells whose tile is tile_types.corrupted_floor
  ai,          \* the class of self (entity.ai): one of AIClasses
  pos,         \* pos[a] = <<a.x, a.y>> for every actor of gamemap.actors
  faction,     \* faction[a] = a.faction
  actors,      \* gamemap.actors: the actors that are alive (self.entity is one)
  path,        \* self.path
  home,        \* self.home (Orc, Troll); the other classes have no such field
  performed,   \* whether self.perform() has been called at least once
  turn         \* the perform call of the current turn: what it read and emitted

vars == <<walkable, corrupted, ai, pos, faction, actors, path, home, performed, turn>>

\* ------------------------------------------------------------------- grid
Cells == (0 .. GridW - 1) \X (0 .. GridH - 1)

Entity == "entity"                  \* self.entity
Others == {"player", "mob"}         \* set(gamemap.actors) - {self.entity}
Actors == {Entity} \cup Others

AIClasses == {"HostileEnemy", "Orc", "Troll", "Animal"}

Abs(n) == IF n < 0 THEN 0 - n ELSE n

Max(a, b) == IF a >= b THEN a ELSE b

\* np.sign on an integer
Sign(n) == IF n > 0 THEN 1 ELSE IF n < 0 THEN 0 - 1 ELSE 0

\* distance = max(abs(dx), abs(dy))  # Chebyshev distance.
Chebyshev(a, b) == Max(Abs(b[1] - a[1]), Abs(b[2] - a[2]))

\* The eight neighbours of a cell inside the grid (SimpleGraph's edge map for
\* cardinal > 0 and diagonal > 0).
Neighbors(c) == {n \in Cells : Chebyshev(c, n) = 1}

IsCardinal(a, b) == a[1] = b[1] \/ a[2] = b[2]

\* np.int8 arithmetic: the cost array has dtype=np.int8.
Int8(v) == ((v + 128) % 256) - 128

SetMin(S) == CHOOSE m \in S : \A n \in S : m <= n

\* ------------------------------------------------------------ get_path_to
\* cost = np.array(tiles["walkable"], dtype=np.int8), then += 10 for every
\* entity that blocks movement and stands on a cell whose cost is not zero.
\* The living actors are the entities that block movement.
\* A cost array on which a cell another creature stands on is closed, like a
\* wall.
CostArray_blocked ==
  <<>> @@ [c \in Cells |->
     IF c \in walkable /\ \A a \in actors \ {Entity} : pos[a] # c THEN 1 ELSE 0]

CostArray ==
  <<>> @@ [c \in Cells |->
     IF c \in walkable
     THEN Int8(1 + BlockedPenalty * Cardinality({a \in actors : pos[a] = c}))
     ELSE 0]

\* The edges of SimpleGraph(cost=cost, cardinal=2, diagonal=3): from every
\* cell to its eight neighbours, with multiplier 2 for a cardinal and 3 for a
\* diagonal step.
\* The edges of a graph without diagonal steps (diagonal=0).
Edges_cardinal == [a \in Cells |-> {n \in Cells : Chebyshev(a, n) = 1 /\ IsCardinal(a, n)}]

Edges == [a \in Cells |-> {n \in Cells : Chebyshev(a, n) = 1}]

EdgeCost == [a \in Cells |-> [b \in Edges[a] |->
               IF IsCardinal(a, b) THEN Cardinal ELSE Diagonal]]

\* More than any route can cost: the distance of a cell not reached.
NoRoute == Diagonal * 128 * Cardinality(Cells)

\* Dijkstra's algorithm: dist is the distance map so far, todo the cells not
\* settled yet, m the least distance among them and u a cell at that
\* distance, which is settled next.  The cost of a step is the multiplier of
\* the edge times the cost of the cell that is entered; a cell whose cost is
\* not positive is never entered.
RECURSIVE Dijkstra(_, _, _)
Dijkstra(cost, dist, todo) ==
  CHOOSE result \in UNION {
    IF m >= NoRoute THEN {dist}
    ELSE UNION {
         {Dijkstra(cost, nd, todo \ {u}) :
            nd \in {<<>> @@ [c \in Cells |->
                      IF c \in Edges[u] /\ c \in todo /\ cost[c] > 0
                         /\ m + EdgeCost[u][c] * cost[c] < dist[c]
                      THEN m + EdgeCost[u][c] * cost[c]
                      ELSE dist[c]]}} :
         u \in {CHOOSE v \in todo : dist[v] = m}} :
    m \in {IF todo = {} THEN NoRoute ELSE SetMin({dist[v] : v \in todo})}} : TRUE

\* pathfinder.add_root((x, y)) and the distances the pathfinder resolves.
DistanceMap(cost, root) ==
  Dijkstra(cost, <<>> @@ [c \in Cells |-> IF c = root THEN 0 ELSE NoRoute], Cells)

\* The shortest routes root .. c, both ends included, along the distance map.
RECURSIVE Routes(_, _, _, _)
Routes(cost, D, root, c) ==
  IF c = root THEN {<<c>>}
  ELSE UNION {{Append(p, c) : p \in Routes(cost, D, root, n)} :
              n \in {m \in Edges[c] : D[m] + EdgeCost[m][c] * cost[c] = D[c]}}

\* The pathfinder get_path_to builds: the cost array, the root and the
\* distances from the root.
Pathfinder ==
  CHOOSE pf \in {[cost |-> cost, root |-> pos[Entity],
                  dist |-> DistanceMap(cost, pos[Entity])] :
                 cost \in {CostArray}} : TRUE

\* pathfinder.path_to(index): a shortest path from the root to index, both
\* included; index alone when it is the root or cannot be reached.  Which of
\* several equally short paths comes back is the library's choice: every one
\* of them is a possible result.
path_to(pf, index) ==
  IF pf.dist[index] < NoRoute THEN Routes(pf.cost, pf.dist, pf.root, index)
  ELSE {<<index>>}

\* get_path_to without the [1:]: the start stays in the path.
get_path_to_unstripped(pf, dest_x, dest_y) == path_to(pf, <<dest_x, dest_y>>)

\* BaseAI.get_path_to: the possible return values; [1:] removes the start.
get_path_to(pf, dest_x, dest_y) ==
  {Tail(p) : p \in path_to(pf, <<dest_x, dest_y>>)}

\* seq[1:]
Slice1(s) == IF s = <<>> THEN <<>> ELSE Tail(s)

\* ---------------------------------------------------------------- get_fov
InRadius(origin, c) ==
  (c[1] - origin[1]) * (c[1] - origin[1]) + (c[2] - origin[2]) * (c[2] - origin[2])
    <= FovRadius * FovRadius

\* BaseAI.get_fov: compute_fov(tiles["transparent"], (x, y), radius=8).  The
\* transparency grid is an input: every mask that holds the point of view and
\* nothing beyond the radius is a possible result.  Only the cells on which an
\* actor stands are ever read from the mask, so the masks range over those.
get_fov ==
  LET origin == pos[Entity]
      seenAt == {pos[a] : a \in actors \ {Entity}}
  IN  {{origin} \cup m : m \in SUBSET {c \in seenAt : InRadius(origin, c)}}

\* ------------------------------------------------------ get_actors_in_fov
\* The result (None, None).
NoActors == [isNone |-> TRUE, actors |-> <<>>, distances |-> <<>>]

\* Every order in which a set can be iterated.
RECURSIVE Orderings(_)
Orderings(S) ==
  IF S = {} THEN {<<>>}
  ELSE UNION {{<<a>> \o q : q \in Orderings(S \ {a})} : a \in S}

\* get_actors_in_fov without the faction test: allies are returned too.
get_actors_in_fov_allies(fov) ==
  LET inFov == {target \in actors \ {Entity} : pos[target] \in fov}
      distance(target) == Chebyshev(pos[Entity], pos[target])
      sorted(q) == \A i \in 1 .. Len(q) - 1 : distance(q[i]) <= distance(q[i + 1])
  IN  IF Cardinality(inFov) = 0 THEN {NoActors}
      ELSE {[isNone    |-> FALSE,
             actors    |-> q,
             distances |-> [i \in 1 .. Len(q) |-> distance(q[i])]] :
            q \in {o \in Orderings(inFov) : sorted(o)}}

\* get_actors_in_fov without the early return: with no candidate it returns
\* two empty arrays.
get_actors_in_fov_empty(fov) ==
  LET inFov == {target \in actors \ {Entity} :
                  /\ pos[target] \in fov
                  /\ faction[target] # faction[Entity]}
      distance(target) == Chebyshev(pos[Entity], pos[target])
      sorted(q) == \A i \in 1 .. Len(q) - 1 : distance(q[i]) <= distance(q[i + 1])
  IN  {[isNone    |-> FALSE,
        actors    |-> q,
        distances |-> [i \in 1 .. Len(q) |-> distance(q[i])]] :
       q \in {o \in Orderings(inFov) : sorted(o)}}

\* BaseAI.get_actors_in_fov with fov = self.get_fov(): the possible return
\* values.  The candidates are appended in the iteration order of a set and
\* np.argsort orders them by distance; equal distances come in either order.
get_actors_in_fov(fov) ==
  LET inFov == {target \in actors \ {Entity} :
                  /\ pos[target] \in fov
                  /\ faction[target] # faction[Entity]}
      distance(target) == Chebyshev(pos[Entity], pos[target])
      sorted(q) == \A i \in 1 .. Len(q) - 1 : distance(q[i]) <= distance(q[i + 1])
  IN  IF Cardinality(inFov) = 0 THEN {NoActors}
      ELSE {[isNone    |-> FALSE,
             actors    |-> q,
             distances |-> [i \in 1 .. Len(q) |-> distance(q[i])]] :
            q \in {o \in Orderings(inFov) : sorted(o)}}

\* actors_in_fov_sorted, distances_sorted = self.get_actors_in_fov(): the
\* possible results, over the possible visibility masks.
Perceive == UNION {get_actors_in_fov(fov) : fov \in get_fov}

\* ---------------------------------------------------------------- actions
WaitAction             == [type |-> "Wait",   dx |-> 0,  dy |-> 0]
PurifyAction           == [type |-> "Purify", dx |-> 0,  dy |-> 0]
MeleeAction(dx, dy)    == [type |-> "Melee",  dx |-> dx, dy |-> dy]
MovementAction(dx, dy) == [type |-> "Move",   dx |-> dx, dy |-> dy]

\* A cell the entity can be moved onto: a walkable cell of the grid on which
\* no other living actor stands.
Free(c) == c \in walkable /\ \A a \in actors \ {Entity} : pos[a] # c

\* What the emitted action does to the map when the game applies it: a Move
\* takes the entity to the cell at its offset when that cell is free, and is
\* without effect otherwise (it may also be declined); Purify cleans the tile
\* under the entity; Melee and Wait leave positions and tiles alone.
Apply(acts) ==
  LET a    == acts[1]
      dest == <<pos[Entity][1] + a.dx, pos[Entity][2] + a.dy>>
  IN  /\ pos' \in {pos} \cup
                  (IF acts # <<>> /\ a.type = "Move" /\ Free(dest)
                   THEN {[pos EXCEPT ![Entity] = dest]} ELSE {})
      /\ corrupted' = IF acts # <<>> /\ a.type = "Purify"
                      THEN corrupted \ {pos[Entity]} ELSE corrupted

\* No perform call has been made this turn.
NoTurn ==
  [called |-> FALSE, fov |-> {}, seen |-> NoActors, routes |-> <<>>, acts |-> <<>>]

\* The end of a perform call: the action it returns is performed, and the
\* fields of self keep what the call assigned.  seen is what get_actors_in_fov
\* returned; routes lists the get_path_to calls made, each with its destination
\* and its result.
Return(seen, routes, acts, newPath, newHome) ==
  /\ path' = newPath
  /\ home' = newHome
  /\ performed' = TRUE
  /\ turn' = [called |-> TRUE, fov |-> {}, seen |-> seen,
              routes |-> routes, acts |-> acts]
  /\ Apply(acts)
  /\ UNCHANGED <<walkable, ai, faction, actors>>

Route(dest, p) == [dest |-> dest, path |-> p]

\* ------------------------------------------------------------ HostileEnemy
\* A HostileEnemy that strikes only a target on its own cell (distance <= 0).
HostileEnemy_perform_reach ==
  /\ ai = "HostileEnemy"
  /\ \E seen \in Perceive :
       IF seen.isNone
       THEN Return(seen, <<>>, <<WaitAction>>, path, home)
       ELSE LET target   == seen.actors[1]
                distance == seen.distances[1]
                dx       == pos[target][1] - pos[Entity][1]
                dy       == pos[target][2] - pos[Entity][2]
            IN  IF distance <= 0
                THEN Return(seen, <<>>, <<MeleeAction(dx, dy)>>, path, home)
                ELSE \E pf \in {Pathfinder} :
                       \E p \in get_path_to(pf, pos[target][1], pos[target][2]) :
                       IF p # <<>>
                       THEN Return(seen, <<Route(pos[target], p)>>,
                                   <<MovementAction(p[1][1] - pos[Entity][1],
                                                    p[1][2] - pos[Entity][2])>>,
                                   Slice1(p), home)
                       ELSE Return(seen, <<Route(pos[target], p)>>,
                                   <<WaitAction>>, p, home)

\* HostileEnemy.perform
HostileEnemy_perform ==
  /\ ai = "HostileEnemy"
  /\ \E seen \in Perceive :
       IF seen.isNone
       THEN Return(seen, <<>>, <<WaitAction>>, path, home)
       ELSE LET target   == seen.actors[1]
                distance == seen.distances[1]
                dx       == pos[target][1] - pos[Entity][1]
                dy       == pos[target][2] - pos[Entity][2]
            IN  IF distance <= 1
                THEN Return(seen, <<>>, <<MeleeAction(dx, dy)>>, path, home)
                ELSE \E pf \in {Pathfinder} :
                       \E p \in get_path_to(pf, pos[target][1], pos[target][2]) :
                       IF p # <<>>
                       THEN Return(seen, <<Route(pos[target], p)>>,
                                   <<MovementAction(p[1][1] - pos[Entity][1],
                                                    p[1][2] - pos[Entity][2])>>,
                                   Slice1(p), home)
                       ELSE Return(seen, <<Route(pos[target], p)>>,
                                   <<WaitAction>>, p, home)

\* --------------------------------------------------------------------- Orc
\* An Orc that takes its position for its home on every call.
Orc_home_always == pos[Entity]

\* self.home after "if self.home[0]==-999: self.home = (x, y)".
Orc_home == IF home[1] = HomeUnset THEN pos[Entity] ELSE home

\* An Orc that removes only the waypoint it moves to.
Orc_rest_single(p) == Slice1(p)

\* self.path after "self.path.pop(0)" and "self.path=self.path[1:]".
Orc_rest(p) == Slice1(Slice1(p))

\* An Orc that draws its wander destination among all the cells of the map.
Orc_wander_anywhere == Cells

\* The cells random.randint can pick among np.where(tiles['walkable']).
Orc_wander == walkable

\* An Orc whose melee branch does not return: it strikes and goes on.
Orc_perform_fallthrough ==
  /\ ai = "Orc"
  /\ \E seen \in Perceive :
       LET target   == seen.actors[1]
           distance == seen.distances[1]
           dx       == pos[target][1] - pos[Entity][1]
           dy       == pos[target][2] - pos[Entity][2]
           struck   == IF ~seen.isNone /\ distance <= 1
                       THEN <<MeleeAction(dx, dy)>> ELSE <<>>
       IN  \E p \in (IF seen.isNone \/ distance <= 1 THEN {path}
                     ELSE UNION {get_path_to(pf, pos[target][1], pos[target][2]) :
                                 pf \in {Pathfinder}}) :
             LET chase == IF seen.isNone \/ distance <= 1 THEN <<>>
                          ELSE <<Route(pos[target], p)>>
             IN  IF p # <<>>
                 THEN Return(seen, chase,
                             struck \o <<MovementAction(p[1][1] - pos[Entity][1],
                                                        p[1][2] - pos[Entity][2])>>,
                             Orc_rest(p), Orc_home)
                 ELSE IF pos[Entity] = Orc_home
                 THEN \E pf \in {Pathfinder} : \E d \in Orc_wander :
                        \E w \in get_path_to(pf, d[1], d[2]) :
                        Return(seen, chase \o <<Route(d, w)>>,
                               struck \o <<WaitAction>>, w, Orc_home)
                 ELSE \E pf \in {Pathfinder} :
                        \E w \in get_path_to(pf, Orc_home[1], Orc_home[2]) :
                        Return(seen, chase \o <<Route(Orc_home, w)>>,
                               struck \o <<WaitAction>>, w, Orc_home)

\* Orc.perform
Orc_perform ==
  /\ ai = "Orc"
  /\ \E seen \in Perceive :
       LET target   == seen.actors[1]
           distance == seen.distances[1]
           dx       == pos[target][1] - pos[Entity][1]
           dy       == pos[target][2] - pos[Entity][2]
       IN  IF ~seen.isNone /\ distance <= 1
           THEN Return(seen, <<>>, <<MeleeAction(dx, dy)>>, path, Orc_home)
           ELSE \E p \in (IF seen.isNone THEN {path}
                          ELSE UNION {get_path_to(pf, pos[target][1], pos[target][2]) :
                                      pf \in {Pathfinder}}) :
                  LET chase == IF seen.isNone THEN <<>>
                               ELSE <<Route(pos[target], p)>>
                  IN  IF p # <<>>
                      THEN Return(seen, chase,
                                  <<MovementAction(p[1][1] - pos[Entity][1],
                                                   p[1][2] - pos[Entity][2])>>,
                                  Orc_rest(p), Orc_home)
                      ELSE IF pos[Entity] = Orc_home
                      THEN \E pf \in {Pathfinder} : \E d \in Orc_wander :
                             \E w \in get_path_to(pf, d[1], d[2]) :
                             Return(seen, chase \o <<Route(d, w)>>,
                                    <<WaitAction>>, w, Orc_home)
                      ELSE \E pf \in {Pathfinder} :
                             \E w \in get_path_to(pf, Orc_home[1], Orc_home[2]) :
                             Return(seen, chase \o <<Route(Orc_home, w)>>,
                                    <<WaitAction>>, w, Orc_home)

\* ------------------------------------------------------------------- Troll
Troll_home == IF home[1] = HomeUnset THEN pos[Entity] ELSE home

Troll_rest(p) == Slice1(Slice1(p))

\* A Troll that picks a wander destination at home, as an Orc does.
Troll_perform_wander ==
  /\ ai = "Troll"
  /\ \E seen \in Perceive :
       LET target   == seen.actors[1]
           distance == seen.distances[1]
           dx       == pos[target][1] - pos[Entity][1]
           dy       == pos[target][2] - pos[Entity][2]
       IN  IF ~seen.isNone /\ distance <= 1
           THEN Return(seen, <<>>, <<MeleeAction(dx, dy)>>, path, Troll_home)
           ELSE \E p \in (IF seen.isNone THEN {path}
                          ELSE UNION {get_path_to(pf, pos[target][1], pos[target][2]) :
                                      pf \in {Pathfinder}}) :
                  LET chase == IF seen.isNone THEN <<>>
                               ELSE <<Route(pos[target], p)>>
                  IN  IF p # <<>>
                      THEN Return(seen, chase,
                                  <<MovementAction(p[1][1] - pos[Entity][1],
                                                   p[1][2] - pos[Entity][2])>>,
                                  Troll_rest(p), Troll_home)
                      ELSE IF pos[Entity] = Troll_home
                      THEN \E pf \in {Pathfinder} : \E d \in walkable :
                             \E w \in get_path_to(pf, d[1], d[2]) :
                             Return(seen, chase \o <<Route(d, w)>>,
                                    <<WaitAction>>, w, Troll_home)
                      ELSE \E pf \in {Pathfinder} :
                             \E w \in get_path_to(pf, Troll_home[1], Troll_home[2]) :
                             Return(seen, chase \o <<Route(Troll_home, w)>>,
                                    <<WaitAction>>, w, Troll_home)

\* Troll.perform
Troll_perform ==
  /\ ai = "Troll"
  /\ \E seen \in Perceive :
       LET target   == seen.actors[1]
           distance == seen.distances[1]
           dx       == pos[target][1] - pos[Entity][1]
           dy       == pos[target][2] - pos[Entity][2]
       IN  IF ~seen.isNone /\ distance <= 1
           THEN Return(seen, <<>>, <<MeleeAction(dx, dy)>>, path, Troll_home)
           ELSE \E p \in (IF seen.isNone THEN {path}
                          ELSE UNION {get_path_to(pf, pos[target][1], pos[target][2]) :
                                      pf \in {Pathfinder}}) :
                  LET chase == IF seen.isNone THEN <<>>
                               ELSE <<Route(pos[target], p)>>
                  IN  IF p # <<>>
                      THEN Return(seen, chase,
                                  <<MovementAction(p[1][1] - pos[Entity][1],
                                                   p[1][2] - pos[Entity][2])>>,
                                  Troll_rest(p), Troll_home)
                      ELSE IF pos[Entity] = Troll_home
                      THEN Return(seen, chase, <<WaitAction>>, p, Troll_home)
                      ELSE \E pf \in {Pathfinder} :
                             \E w \in get_path_to(pf, Troll_home[1], Troll_home[2]) :
                             Return(seen, chase \o <<Route(Troll_home, w)>>,
                                    <<WaitAction>>, w, Troll_home)

\* ------------------------------------------------------------------ Animal
Animal_rest(p) == Slice1(Slice1(p))

Animal_wander == walkable

\* The flee of an Animal that moves toward the target: the sign is not negated.
Animal_flee_toward(target) ==
  MovementAction(Sign(pos[target][1] - pos[Entity][1]),
                 Sign(pos[target][2] - pos[Entity][2]))

\* dx, dy = np.sign of the offset to the target; MovementAction(-dx, -dy).
Animal_flee(target) ==
  LET dx == Sign(pos[target][1] - pos[Entity][1])
      dy == Sign(pos[target][2] - pos[Entity][2])
  IN  MovementAction(0 - dx, 0 - dy)

\* The tile test of an Animal that takes the clean floor for the corrupted one.
OnCorrupted_inverted == pos[Entity] \notin corrupted

\* tiles[x, y] == tile_types.corrupted_floor
OnCorrupted == pos[Entity] \in corrupted

Animal_perform ==
  /\ ai = "Animal"
  /\ \E seen \in Perceive :
       IF ~seen.isNone
       THEN Return(seen, <<>>, <<Animal_flee(seen.actors[1])>>, <<>>, home)
       ELSE IF OnCorrupted
       THEN Return(seen, <<>>, <<PurifyAction>>, path, home)
       ELSE IF path # <<>>
       THEN Return(seen, <<>>,
                   <<MovementAction(path[1][1] - pos[Entity][1],
                                    path[1][2] - pos[Entity][2])>>,
                   Animal_rest(path), home)
       ELSE \E pf \in {Pathfinder} : \E d \in Animal_wander :
              \E w \in get_path_to(pf, d[1], d[2]) :
              Return(seen, <<Route(d, w)>>, <<WaitAction>>, w, home)

\* ------------------------------------------------------------- other actors
\* Between two turns of the entity the player takes a step of its own onto a
\* walkable cell that nobody stands on.  (The second actor holds its place.)
PlayerMoves ==
  \E c \in Neighbors(pos["player"]) :
    /\ c \in walkable
    /\ \A a \in actors : pos[a] # c
    /\ pos' = [pos EXCEPT !["player"] = c]
    /\ turn' = NoTurn
    /\ UNCHANGED <<walkable, corrupted, ai, faction, actors, path, home, performed>>

\* -------------------------------------------------------------------- maps
\* A room with one pillar, and a room cut in two by a wall one column wide.
PillarMap == Cells \ {<<1, 0>>}
SplitMap  == {c \in Cells : c[1] # GridW - 2}

\* Where the entity is placed on the map, and where the second actor stands:
\* in the far corner of the room, which the wall of SplitMap cuts off.
Spawn   == <<0, 1>>
MobCell == <<GridW - 1, GridH - 1>>

\* The faction entity_factories gives the archetype that runs each ai class
\* (HostileEnemy is given to no archetype; it takes the orcs' side here).
FactionOf(cls) == IF cls = "Animal" THEN DeerFaction ELSE OrcFaction

\* Corrupted floor on the spawn cell and on the cell next to it.  The player,
\* and as second actor an orc beside an Animal and a deer beside the others: both are
\* of another faction than the entity.
Init ==
  /\ walkable \in {PillarMap, SplitMap}
  /\ corrupted = {Spawn, <<1, 1>>}
  /\ ai \in AIClasses
  /\ actors = Actors
  /\ pos \in {f \in [Actors -> walkable] :
                /\ f[Entity] = Spawn
                /\ f["mob"] = MobCell
                /\ \A a, b \in Actors : a # b => f[a] # f[b]}
  /\ faction = [a \in Actors |->
                  IF a = Entity THEN FactionOf(ai)
                  ELSE IF a = "player" THEN PlayerFaction
                  ELSE IF ai = "Animal" THEN OrcFaction ELSE DeerFaction]
  /\ path = <<>>
  /\ home = <<HomeUnset, HomeUnset>>
  /\ performed = FALSE
  /\ turn = NoTurn

Next ==
  \/ HostileEnemy_perform
  \/ Orc_perform
  \/ Troll_perform
  \/ Animal_perform
  \/ PlayerMoves

Spec == Init /\ [][Next]_vars

\* A Troll and the player, the only other creature alive, with the game loop,
\* which asks the Troll for its action turn after turn, for ever.
InitTroll ==
  /\ walkable \in {PillarMap, SplitMap}
  /\ corrupted = {}
  /\ ai = "Troll"
  /\ actors = {Entity, "player"}
  /\ pos \in {f \in [Actors -> walkable] :
                /\ f[Entity] = Spawn
                /\ f["mob"] = MobCell
                /\ \A a, b \in Actors : a # b => f[a] # f[b]}
  /\ faction = [a \in Actors |->
                  IF a = "player" THEN PlayerFaction ELSE OrcFaction]
  /\ path = <<>>
  /\ home = <<HomeUnset, HomeUnset>>
  /\ performed = FALSE
  /\ turn = NoTurn

NextTroll == Troll_perform \/ PlayerMoves

SpecTroll == InitTroll /\ [][NextTroll]_vars /\ WF_vars(Troll_perform)

\* ------------------------------------------------- the two queries, alone
\* One call of get_actors_in_fov: turn keeps the mask it read and its result.
Call_get_actors_in_fov ==
  \E fov \in get_fov : \E seen \in get_actors_in_fov(fov) :
    /\ turn' = [NoTurn EXCEPT !.called = TRUE, !.fov = fov, !.seen = seen]
    /\ UNCHANGED <<walkable, corrupted, ai, pos, faction, actors, path, home, performed>>

\* Any two other actors, dead or alive, of any faction, anywhere on the grid
\* (also on the observer's own cell), seen from a fixed cell.
InitFov ==
  /\ walkable = Cells
  /\ corrupted = {}
  /\ ai = "HostileEnemy"
  /\ actors \in {{Entity} \cup s : s \in SUBSET Others}
  /\ pos \in {f \in [Actors -> Cells] : f[Entity] = Spawn}
  /\ faction \in {f \in [Actors -> {PlayerFaction, OrcFaction, DeerFaction}] :
                    f[Entity] = OrcFaction}
  /\ path = <<>>
  /\ home = <<HomeUnset, HomeUnset>>
  /\ performed = FALSE
  /\ turn = NoTurn

SpecFov == InitFov /\ [][Call_get_actors_in_fov]_vars

\* One call of get_path_to, to any cell of the grid: turn keeps the
\* destination and the result.
Call_get_path_to ==
  \E pf \in {Pathfinder} : \E d \in Cells : \E p \in get_path_to(pf, d[1], d[2]) :
    /\ turn' = [NoTurn EXCEPT !.called = TRUE, !.routes = <<Route(d, p)>>]
    /\ UNCHANGED <<walkable, corrupted, ai, pos, faction, actors, path, home, performed>>

\* An open room, and a corridor one cell wide along the top row.
OpenMap     == Cells
CorridorMap == {c \in Cells : c[2] = 0}

\* The entity on any walkable cell and the player on any cell of the grid, a
\* wall included; the second actor on its own cell.  Either of the two may be
\* dead (a corpse that blocks nothing); the second actor is dead where its
\* cell has no floor.
InitPath ==
  /\ walkable \in {OpenMap, PillarMap, SplitMap, CorridorMap}
  /\ corrupted = {}
  /\ ai = "HostileEnemy"
  /\ actors \in {{Entity} \cup s :
                 s \in SUBSET (IF MobCell \in walkable THEN Others ELSE {"player"})}
  /\ pos \in {f \in [Actors -> Cells] :
                /\ f[Entity] \in walkable
                /\ f["mob"] = MobCell}
  /\ faction = [a \in Actors |-> IF a = "player" THEN PlayerFaction ELSE OrcFaction]
  /\ path = <<>>
  /\ home = <<HomeUnset, HomeUnset>>
  /\ performed = FALSE
  /\ turn = NoTurn

SpecPath == InitPath /\ [][Call_get_path_to]_vars

\* ================================================================ properties
\* In a step of a perform call, turn' holds what the call perceived (seen),
\* the get_path_to calls it made (routes) and the actions it emitted (acts);
\* the unprimed variables are the state the call started from.

Elems(q) == {q[i] : i \in 1 .. Len(q)}

\* The visible targets of seen that no other visible target is nearer than.
Nearest(seen) ==
  {t \in Elems(seen.actors) :
     \A u \in Elems(seen.actors) :
       Chebyshev(pos[Entity], pos[t]) <= Chebyshev(pos[Entity], pos[u])}

\* The cells that can be walked to from the cells of S, by steps onto walkable
\* neighbours.
RECURSIVE Reach(_)
Reach(S) ==
  LET N == S \cup {n \in walkable : \E c \in S : Chebyshev(c, n) = 1}
  IN  IF N = S THEN S ELSE Reach(N)

\* C1: HostileEnemy.perform emits Wait when it sees no creature of another
\* faction; else, with the nearest visible target at Chebyshev distance <= 1,
\* Melee with the offset target - self; else it asks get_path_to for the path
\* to the target's cell and emits Move by (first waypoint - position) when
\* that path is not empty and Wait when it is.
C1_HostileEnemyDecision ==
  [][(turn'.called /\ ai = "HostileEnemy") =>
       LET seen == turn'.seen
           me   == pos[Entity]
       IN  IF seen.isNone THEN turn'.acts = <<WaitAction>>
           ELSE \E t \in Nearest(seen) :
                  IF Chebyshev(me, pos[t]) <= 1
                  THEN turn'.acts =
                         <<MeleeAction(pos[t][1] - me[1], pos[t][2] - me[2])>>
                  ELSE \E p \in get_path_to(Pathfinder, pos[t][1], pos[t][2]) :
                         /\ turn'.routes = <<Route(pos[t], p)>>
                         /\ turn'.acts =
                              IF p # <<>>
                              THEN <<MovementAction(p[1][1] - me[1], p[1][2] - me[2])>>
                              ELSE <<WaitAction>>
  ]_vars

\* A HostileEnemy that saw two targets, the nearer one more than a step away,
\* and moved along the path it computed to it.
C1_Witness ==
  /\ turn.called /\ ai = "HostileEnemy"
  /\ Len(turn.seen.actors) = 2
  /\ 1 < turn.seen.distances[1] /\ turn.seen.distances[1] < turn.seen.distances[2]
  /\ turn.acts[1].type = "Move"
  /\ Len(turn.routes) = 1 /\ Len(turn.routes[1].path) >= 2

\* An Orc that sees nobody, stands on its home cell and has no path.
OrcIdleAtHome ==
  /\ turn'.called /\ ai = "Orc"
  /\ turn'.seen.isNone
  /\ pos[Entity] = home'
  /\ path = <<>>

\* C2 as stated: such an Orc emits a Move in that same turn, toward a random
\* destination that is never its home cell.
C2_OrcMovesFromHome ==
  [][OrcIdleAtHome =>
       /\ turn'.acts[1].type = "Move"
       /\ \A i \in 1 .. Len(turn'.routes) : turn'.routes[i].dest # home'
  ]_vars

\* C2, amended: such an Orc emits Wait in that turn and stores as its path the
\* result of get_path_to for a walkable cell drawn at random, which may be the
\* home cell itself (the stored path is then empty).
C2_OrcPlansWanderFromHome ==
  [][OrcIdleAtHome =>
       /\ turn'.acts = <<WaitAction>>
       /\ \E d \in walkable : \E w \in get_path_to(Pathfinder, d[1], d[2]) :
            /\ turn'.routes = <<Route(d, w)>>
            /\ path' = w
  ]_vars

\* An Orc at home that saw nobody, waited, and holds a path to a wander
\* destination three steps away.
C2_Witness ==
  /\ turn.called /\ ai = "Orc"
  /\ turn.seen.isNone
  /\ pos[Entity] = home
  /\ turn.acts = <<WaitAction>>
  /\ Len(turn.routes) = 1 /\ turn.routes[1].dest # home
  /\ path = turn.routes[1].path /\ Len(path) >= 3

\* C3: the home of an Orc or a Troll is unset before the first perform call,
\* the first perform call sets it to the position the creature has then, and
\* no later step changes it.
C3_HomeSetOnce ==
  /\ [](~performed => home = <<HomeUnset, HomeUnset>>)
  /\ [][(turn'.called /\ ai \in {"Orc", "Troll"} /\ ~performed) => home' = pos[Entity]]_vars
  /\ [][(ai \in {"Orc", "Troll"} /\ performed) => home' = home]_vars

\* An Orc or a Troll that has left the cell it took for its home.
C3_Witness ==
  /\ ai \in {"Orc", "Troll"} /\ performed
  /\ home = Spawn /\ pos[Entity] # home
  /\ turn.called /\ turn.acts[1].type = "Move"

\* C4: an Animal that sees a creature of another faction emits
\* Move(-sign(dx), -sign(dy)) for the offset (dx, dy) to the nearest visible
\* target and has an empty path afterwards, whatever path it held and whatever
\* tile it stands on.
C4_AnimalFlees ==
  [][(turn'.called /\ ai = "Animal" /\ ~turn'.seen.isNone) =>
       /\ \E t \in Nearest(turn'.seen) :
            turn'.acts = <<MovementAction(0 - Sign(pos[t][1] - pos[Entity][1]),
                                          0 - Sign(pos[t][2] - pos[Entity][2]))>>
       /\ path' = <<>>
  ]_vars

\* An Animal on a corrupted tile that saw two targets and emitted a Move (the
\* move was declined: it still stands on the corrupted tile).
C4_Witness ==
  /\ turn.called /\ ai = "Animal"
  /\ Len(turn.seen.actors) = 2
  /\ turn.acts[1].type = "Move"
  /\ pos[Entity] \in corrupted
  /\ path = <<>>

\* C5: an Animal on a corrupted tile that sees no creature of another faction
\* emits Purify and leaves its path as it was.
C5_AnimalPurifies ==
  [][(turn'.called /\ ai = "Animal" /\ turn'.seen.isNone /\ pos[Entity] \in corrupted) =>
       /\ turn'.acts = <<PurifyAction>>
       /\ path' = path
  ]_vars

\* An Animal that purified its tile while holding a wander path.
C5_Witness ==
  /\ turn.called /\ ai = "Animal"
  /\ turn.seen.isNone
  /\ turn.acts = <<PurifyAction>>
  /\ path # <<>>

\* C6: get_actors_in_fov returns exactly the actors that are not the observer,
\* are of another faction than the observer and stand in the visibility mask,
\* in ascending order of their Chebyshev distance from the observer (the
\* distances are returned beside them); an actor of the observer's faction is
\* never among them.  (With no such actor the call returns None, which holds
\* no actor.)
C6_ActorsInFov ==
  turn.called =>
    LET seen     == turn.seen
        me       == pos[Entity]
        eligible == {a \in actors : /\ a # Entity
                                    /\ faction[a] # faction[Entity]
                                    /\ pos[a] \in turn.fov}
    IN  /\ Elems(seen.actors) = eligible
        /\ Len(seen.actors) = Cardinality(eligible)
        /\ seen.isNone <=> eligible = {}
        /\ Len(seen.distances) = Len(seen.actors)
        /\ \A i \in 1 .. Len(seen.actors) :
             seen.distances[i] =
               Max(Abs(pos[seen.actors[i]][1] - me[1]), Abs(pos[seen.actors[i]][2] - me[2]))
        /\ \A i \in 1 .. Len(seen.actors) - 1 : seen.distances[i] <= seen.distances[i + 1]
        /\ \A i \in 1 .. Len(seen.actors) : faction[seen.actors[i]] # faction[Entity]

\* A call that returned one target while an ally stood in the mask, nearer
\* than the target.
C6_Witness ==
  /\ turn.called
  /\ Len(turn.seen.actors) = 1
  /\ \E a \in actors \ {Entity} :
       /\ faction[a] = faction[Entity]
       /\ pos[a] \in turn.fov
       /\ Chebyshev(pos[Entity], pos[a]) = 1
       /\ turn.seen.distances[1] > 1

\* C7: the path get_path_to returns does not hold the origin, starts next to
\* the origin, goes by steps between 8-directionally adjacent cells, holds
\* walkable cells only and ends at the destination; it is empty exactly when
\* the destination is the origin or cannot be reached.
C7_PathShape ==
  turn.called =>
    LET p       == turn.routes[1].path
        dest    == turn.routes[1].dest
        origin  == pos[Entity]
        at(i)   == IF i = 0 THEN origin ELSE p[i]
    IN  /\ \A i \in 1 .. Len(p) :
             /\ p[i] # origin
             /\ p[i] \in walkable
             /\ Chebyshev(at(i - 1), p[i]) = 1
        /\ p # <<>> => p[Len(p)] = dest
        /\ p = <<>> <=> (dest = origin \/ dest \notin Reach({origin}))

\* A path of three steps around the pillar, on a map where the player stands
\* alive in the way.
C7_Witness ==
  /\ turn.called
  /\ walkable = PillarMap
  /\ Len(turn.routes[1].path) = 3
  /\ "player" \in actors
  /\ pos["player"] = turn.routes[1].path[1]

\* C8: one perform call, of any of the four classes, emits exactly one action,
\* and that action is a Move, a Melee, a Wait or a Purify.
C8_OneAction ==
  turn.called =>
    /\ Len(turn.acts) = 1
    /\ turn.acts[1].type \in {"Move", "Melee", "Wait", "Purify"}

\* An Orc that struck a target next to it: a Melee and nothing else.
C8_Witness ==
  /\ turn.called /\ ai = "Orc"
  /\ ~turn.seen.isNone
  /\ turn.seen.distances[1] = 1
  /\ Len(turn.acts) = 1 /\ turn.acts[1].type = "Melee"

\* C9 as stated: an Orc, Troll or Animal that holds a path and computes no
\* path in its perform call emits Move by (first waypoint - position) and
\* keeps the old path without its first two elements.
C9_FollowsWheneverNoRecompute ==
  [][(turn'.called /\ ai \in {"Orc", "Troll", "Animal"}
        /\ turn'.routes = <<>> /\ path # <<>>) =>
       /\ turn'.acts = <<MovementAction(path[1][1] - pos[Entity][1],
                                        path[1][2] - pos[Entity][2])>>
       /\ path' = SubSeq(path, 3, Len(path))
  ]_vars

\* C9, amended: an Orc, Troll or Animal that holds a path, sees no creature of
\* another faction and (an Animal) does not stand on a corrupted tile emits
\* Move by (first waypoint - position) and keeps the old path without its
\* first two elements.
C9_FollowsTwoWaypoints ==
  [][(turn'.called /\ ai \in {"Orc", "Troll", "Animal"}
        /\ turn'.seen.isNone /\ path # <<>>
        /\ (ai = "Animal" => pos[Entity] \notin corrupted)) =>
       /\ turn'.acts = <<MovementAction(path[1][1] - pos[Entity][1],
                                        path[1][2] - pos[Entity][2])>>
       /\ path' = SubSeq(path, 3, Len(path))
  ]_vars

\* An Orc that saw nobody, moved, and still holds a waypoint: the path it
\* followed had three elements or more.
C9_Witness ==
  /\ turn.called /\ ai = "Orc"
  /\ turn.seen.isNone
  /\ turn.routes = <<>>
  /\ turn.acts[1].type = "Move"
  /\ path # <<>>

\* C10: a Troll that sees no creature of another faction, has no path and
\* stands on its home cell emits Wait, computes no path and keeps its path
\* empty.
C10_TrollWaitsAtHome ==
  [][(turn'.called /\ ai = "Troll" /\ turn'.seen.isNone
        /\ path = <<>> /\ pos[Entity] = home') =>
       /\ turn'.acts = <<WaitAction>>
       /\ turn'.routes = <<>>
       /\ path' = <<>>
  ]_vars

\* A Troll waiting on its home cell while the player stands next to the spawn
\* cell, out of its sight.
C10_Witness ==
  /\ turn.called /\ ai = "Troll"
  /\ turn.seen.isNone
  /\ pos[Entity] = home /\ path = <<>>
  /\ turn.routes = <<>>
  /\ turn.acts = <<WaitAction>>
  /\ pos["player"] # Spawn /\ Chebyshev(Spawn, pos["player"]) = 1

\* C11: in an open room (every cell walkable, no other living creature in it)
\* the path get_path_to returns has as many steps as the Chebyshev distance
\* from the origin to the destination, for every origin and destination.
C11_OpenRoomLength ==
  (turn.called /\ walkable = Cells /\ actors = {Entity}) =>
    Len(turn.routes[1].path) =
      Max(Abs(turn.routes[1].dest[1] - pos[Entity][1]),
          Abs(turn.routes[1].dest[2] - pos[Entity][2]))

\* A path across the empty open room, from one corner to the opposite one.
C11_Witness ==
  /\ turn.called /\ walkable = Cells /\ actors = {Entity}
  /\ pos[Entity] = <<0, 0>>
  /\ turn.routes[1].dest = <<GridW - 1, GridH - 1>>
  /\ Len(turn.routes[1].path) = GridW - 1

\* The cost array as it is without the creature a.
CostWithout(a) ==
  [c \in Cells |->
     IF c \in walkable
     THEN 1 + BlockedPenalty * Cardinality({b \in actors \ {a} : pos[b] = c})
     ELSE 0]

\* What the walk from origin along p costs on the cost array cost.
RECURSIVE PathCost(_, _, _)
PathCost(cost, origin, p) ==
  IF p = <<>> THEN 0
  ELSE (IF IsCardinal(origin, p[1]) THEN Cardinal ELSE Diagonal) * cost[p[1]]
       + PathCost(cost, p[1], Tail(p))

\* The cells that can be walked to from the cells of S over the cells of W.
RECURSIVE ReachIn(_, _)
ReachIn(S, W) ==
  LET N == S \cup {n \in W : \E c \in S : Chebyshev(c, n) = 1}
  IN  IF N = S THEN S ELSE ReachIn(N, W)

\* C12: a living creature on a walkable cell that every route from the origin
\* to the destination goes through makes that cell cost 10 more than without
\* it and the path cost more than the cheapest route without it, yet the path
\* get_path_to returns is not empty and goes through the cell; a cell that is
\* not walkable has cost 0 and is on no path, whoever stands on it.
C12_OccupiedCellCostsMore ==
  turn.called =>
    LET p      == turn.routes[1].path
        dest   == turn.routes[1].dest
        origin == pos[Entity]
    IN  /\ \A a \in actors \ {Entity} :
             (/\ pos[a] \in walkable
              /\ pos[a] # origin
              /\ dest \in ReachIn({origin}, walkable)
              /\ dest \notin ReachIn({origin}, walkable \ {pos[a]})) =>
                /\ CostArray[pos[a]] = CostWithout(a)[pos[a]] + 10
                /\ p # <<>>
                /\ pos[a] \in Elems(p)
                /\ PathCost(CostArray, origin, p) >
                     DistanceMap(CostWithout(a), origin)[dest]
        /\ \A c \in Cells \ walkable : CostArray[c] = 0 /\ c \notin Elems(p)

\* A path along the corridor that goes through the cell the living player
\* stands on, and on to a cell behind it.
C12_Witness ==
  /\ turn.called /\ walkable = CorridorMap
  /\ "player" \in actors
  /\ Len(turn.routes[1].path) = 3
  /\ turn.routes[1].path[2] = pos["player"]

\* The creatures get_actors_in_fov has to return from the mask turn.fov.
Eligible ==
  {a \in actors \ {Entity} : faction[a] # faction[Entity] /\ pos[a] \in turn.fov}

\* C13 as stated: with no eligible target get_actors_in_fov returns an empty
\* list, not None.
C13_EmptyListWhenNoTarget ==
  (turn.called /\ Eligible = {}) =>
    /\ ~turn.seen.isNone
    /\ turn.seen.actors = <<>>

\* C13, amended: with no eligible target (no other creature, creatures of the
\* observer's faction only, or none in the mask) get_actors_in_fov returns
\* (None, None); with an eligible target it returns arrays, never None.
C13_NoneWhenNoTarget ==
  turn.called =>
    /\ Eligible = {} => turn.seen = NoActors
    /\ Eligible # {} => ~turn.seen.isNone /\ turn.seen.actors # <<>>

\* A call that returned None while a living creature of the observer's faction
\* stood next to it, inside the mask.
C13_Witness ==
  /\ turn.called /\ turn.seen.isNone
  /\ \E a \in actors \ {Entity} :
       /\ faction[a] = faction[Entity]
       /\ pos[a] \in turn.fov
       /\ Chebyshev(pos[Entity], pos[a]) = 1

\* C15: in every reachable state of every policy the first element of the
\* stored path is not the cell the creature stands on.
C15_PathNeverStartsHere ==
  path # <<>> => path[1] # pos[Entity]

\* A creature that has left its spawn cell by a Move that was applied and
\* still holds waypoints.
C15_Witness ==
  /\ turn.called
  /\ turn.acts[1].type = "Move"
  /\ pos[Entity] # Spawn
  /\ path # <<>>

\* C16: every Move a policy emits is a single grid step, |dx| <= 1 and
\* |dy| <= 1, also where an Orc, Troll or Animal follows a stored path it did
\* not recompute in this turn.
C16_MoveIsOneStep ==
  (turn.called /\ turn.acts[1].type = "Move") =>
    /\ Abs(turn.acts[1].dx) <= 1
    /\ Abs(turn.acts[1].dy) <= 1

\* C17: an Orc that reaches the no-path branch of perform stands on its home
\* cell or on the destination of the path it was last following.  The path
\* runs out in the turn that follows its last waypoints, and nothing moves the
\* Orc between that turn and the next: so, when an Orc that sees no hostile
\* follows its stored path, its Move is applied and the stored path is empty
\* afterwards, the Orc stands on its home cell or on the last cell of that
\* path.
C17_OrcOutOfPathAtGoal ==
  [][(/\ turn'.called /\ ai = "Orc"
      /\ turn'.seen.isNone
      /\ path # <<>>
      /\ pos'[Entity] = path[1]
      /\ path' = <<>>) =>
        \/ pos'[Entity] = home'
        \/ pos'[Entity] = path[Len(path)]
  ]_vars

\* The Move a perform call emitted, if any, took the creature to the cell at
\* its offset.
MoveApplied ==
  (turn'.called /\ turn'.acts[1].type = "Move") =>
    pos'[Entity] = <<pos[Entity][1] + turn'.acts[1].dx,
                     pos[Entity][2] + turn'.acts[1].dy>>

\* C18: a Troll that from some turn on sees no hostile and has each of its
\* Moves applied will stand on its home cell with an empty path, and from
\* then on it stays there with its path empty and every perform call emits
\* Wait.
C18_TrollSettlesAtHome ==
  (<>[](turn.called => turn.seen.isNone) /\ <>[][MoveApplied]_vars) =>
    <>[](/\ pos[Entity] = home
         /\ path = <<>>
         /\ turn.called => turn.acts = <<WaitAction>>)

\* A Troll that sees no hostile and has just come back to its home cell by a
\* Move, its path used up.
C18_Witness ==
  /\ turn.called /\ ai = "Troll"
  /\ turn.seen.isNone
  /\ turn.acts[1].type = "Move"
  /\ pos[Entity] = home
  /\ path = <<>>

====
